---- MODULE Spec2Model ----
(***************************************************************************)
(* Model of the Safe-Link-AI inference service: the artifact loader        *)
(* (model_loader.py) as a set of threads stepping through _ensure_loaded,  *)
(* and the Flask application (app.py) as its import-time startup followed  *)
(* by /health and /predict requests.                                       *)
(***************************************************************************)
EXTENDS Integers, Sequences, FiniteSets, TLC

VARIABLES
    artifact,           \* the file at MODEL_PATH: exists or not, and what joblib.load yields
    _model_cache,       \* model_loader._model_cache: [loaded, package]
    _cache_lock,        \* model_loader._cache_lock: 0 when free, else the holding thread
    nDeserialize,       \* number of joblib.load calls performed so far (history)
    nLoadFile,          \* number of _load_model_file calls made so far (history)
    pc,                 \* per thread: position inside the loader call
    op,                 \* per thread: which loader function is being executed
    calls,              \* per thread: loader calls started so far
    loaded_obj,         \* per thread: local loaded_obj of _ensure_loaded
    package,            \* per thread: local package of _ensure_loaded
    raised,             \* per thread: an exception is propagating out of _ensure_loaded
    ret,                \* per thread: outcome of the last finished loader call
    phase,              \* app.py: "import" before the module body ran, "serving" after
    PIPELINE_PACKAGE,   \* app.PIPELINE_PACKAGE
    REQUIRED_FEATURES,  \* app.REQUIRED_FEATURES
    startup,            \* history: what the import-time try block did
    request,            \* the HTTP request being handled, or handled last
    response,           \* the response to it, once the handler has run
    label_map,          \* codec development: the raw mapping handed to the loop
    codec               \* codec development: the codec built from it

loaderVars == <<_model_cache, _cache_lock, nDeserialize, nLoadFile, pc, op, calls,
                loaded_obj, package, raised, ret>>
appVars    == <<phase, PIPELINE_PACKAGE, REQUIRED_FEATURES, startup, request,
                response>>
codecVars  == <<label_map, codec>>
vars       == <<artifact, loaderVars, appVars, codecVars>>

-----------------------------------------------------------------------------
(* Bounds of the model.                                                    *)

NThreads == 2       \* loader threads
MaxCalls == 2       \* loader calls each thread makes
MaxId    == 2       \* class ids range over 0..MaxId
MaxPairs == 2       \* entries of a raw label mapping in the codec development

Threads  == 1..NThreads
ClassIds == 0..MaxId

-----------------------------------------------------------------------------
(* Python values.  Every value is a record [t, n, s]: t the type, n the    *)
(* number it carries (floats in tenths), s the text it carries.            *)

PyNone     == [t |-> "NoneType", n |-> 0, s |-> ""]
PyInt(i)   == [t |-> "int",   n |-> i, s |-> ""]
PyBool(b)  == [t |-> "bool",  n |-> IF b THEN 1 ELSE 0, s |-> ""]
PyFloat(x) == [t |-> "float", n |-> x, s |-> ""]
PyStr(str) == [t |-> "str",   n |-> 0, s |-> str]
PyList     == [t |-> "list",  n |-> 0, s |-> ""]
PyDict     == [t |-> "dict",  n |-> 0, s |-> ""]
NpInt(i)   == [t |-> "numpy.int64", n |-> i, s |-> ""]

\* isinstance(v, (int,)): bool is a subclass of int, numpy.int64 is not.
IsInstanceInt(v) == v.t \in {"int", "bool"}

\* isinstance(v, (int, float))
IsInstanceIntFloat(v) == v.t \in {"int", "bool", "float"}

\* isinstance(v, str)
IsInstanceStr(v) == v.t = "str"

\* The decimal text of a class id, and the texts float() can parse.
DigitStrings == {ToString(i) : i \in ClassIds}
FloatTenths  == [s \in {"3.5", "2.5"} |-> IF s = "3.5" THEN 35 ELSE 25]

\* str.isdigit()
IsDigit(str) == str \in DigitStrings

\* int(v) -> [ok, n]: ok = FALSE stands for ValueError / TypeError.
IntOf(v) ==
    CASE v.t \in {"int", "bool", "numpy.int64"} -> [ok |-> TRUE, n |-> v.n]
      [] v.t = "float" -> [ok |-> TRUE, n |-> v.n \div 10]
      [] v.t = "str" ->
            IF v.s \in DigitStrings
            THEN [ok |-> TRUE, n |-> CHOOSE i \in ClassIds : ToString(i) = v.s]
            ELSE [ok |-> FALSE, n |-> 0]
      [] OTHER -> [ok |-> FALSE, n |-> 0]

\* float(v) -> [ok, x] with x in tenths: ok = FALSE stands for ValueError / TypeError.
FloatOf(v) ==
    CASE v.t \in {"int", "bool", "numpy.int64"} -> [ok |-> TRUE, x |-> 10 * v.n]
      [] v.t = "float" -> [ok |-> TRUE, x |-> v.n]
      [] v.t = "str" ->
            IF v.s \in DOMAIN FloatTenths THEN [ok |-> TRUE, x |-> FloatTenths[v.s]]
            ELSE IF v.s \in DigitStrings
            THEN [ok |-> TRUE, x |-> 10 * (CHOOSE i \in ClassIds : ToString(i) = v.s)]
            ELSE [ok |-> FALSE, x |-> 0]
      [] OTHER -> [ok |-> FALSE, x |-> 0]

\* str(v)
StrOf(v) ==
    CASE v.t = "str" -> v.s
      [] v.t \in {"int", "numpy.int64"} -> ToString(v.n)
      [] v.t = "bool" -> IF v.n = 1 THEN "True" ELSE "False"
      [] v.t = "float" -> ToString(v.n \div 10) \o "." \o ToString(v.n % 10)
      [] v.t = "NoneType" -> "None"
      [] v.t = "list" -> "[]"
      [] OTHER -> "{}"

EmptyDict == [x \in {} |-> 0]

\* d[k] = v
DictSet(d, k, v) == (k :> v) @@ d

-----------------------------------------------------------------------------
(* Artifacts: what joblib.load can yield.                                  *)

\* A pipeline object, or None (isNone).  named_steps / selector /
\* required_columns are the attributes get_required_features looks for.
NoPipeline == [isNone |-> TRUE, name |-> "", hasNamedSteps |-> FALSE,
               hasSelector |-> FALSE, hasRequiredColumns |-> FALSE,
               required_columns |-> <<>>]
PlainPipe(nm) == [NoPipeline EXCEPT !.isNone = FALSE, !.name = nm]
StepsPipe(nm) == [PlainPipe(nm) EXCEPT !.hasNamedSteps = TRUE]
BareSelPipe(nm) == [StepsPipe(nm) EXCEPT !.hasSelector = TRUE]
SelPipe(nm, cols) == [BareSelPipe(nm) EXCEPT !.hasRequiredColumns = TRUE,
                                             !.required_columns = cols]

\* An optional list of feature names: None, or a list (possibly empty).
NoList        == [isNone |-> TRUE, items |-> <<>>]
ListOf(items) == [isNone |-> FALSE, items |-> items]

\* An optional raw label mapping: None, or the dict's items in iteration order.
NoMapping    == [isNone |-> TRUE, items |-> <<>>]
MappingOf(m) == [isNone |-> FALSE, items |-> m]
Pair(k, v)   == [k |-> k, v |-> v]

\* The object joblib.load returns: a dict (its .get results per key, None
\* when the key is absent) or a bare pipeline object.
DictObj(p, m, po, f, lm, md) ==
    [isdict |-> TRUE, bare |-> NoPipeline, pipeline |-> p, model |-> m,
     pipeline_obj |-> po, required_raw_features |-> f, label_mapping |-> lm,
     model_metadata |-> md]
BareObj(p) ==
    [isdict |-> FALSE, bare |-> p, pipeline |-> NoPipeline, model |-> NoPipeline,
     pipeline_obj |-> NoPipeline, required_raw_features |-> NoList,
     label_mapping |-> NoMapping, model_metadata |-> "None"]

MissingFile  == [exists |-> FALSE, obj |-> BareObj(NoPipeline)]
FileOf(obj)  == [exists |-> TRUE, obj |-> obj]

FeatureLists == {NoList, ListOf(<<>>), ListOf(<<"a", "b">>), ListOf(<<"b", "a">>)}

IdKeyed      == MappingOf(<<Pair(PyInt(0), PyStr("BENIGN")), Pair(PyInt(1), PyStr("DDoS"))>>)
NameKeyed    == MappingOf(<<Pair(PyStr("BENIGN"), PyInt(0)), Pair(PyStr("DDoS"), PyInt(1))>>)
DigitKeyed   == MappingOf(<<Pair(PyStr("1"), PyStr("DDoS"))>>)
BadMapping   == MappingOf(<<Pair(PyStr("BENIGN"), PyStr("zero"))>>)
Mappings     == {NoMapping, MappingOf(<<>>), IdKeyed, NameKeyed, DigitKeyed, BadMapping}

\* Artifacts of the application development: a missing file, bare pipeline
\* objects, and dicts varying where the pipeline sits, what feature list is
\* declared and what label mapping is carried.
AppArtifacts ==
    {MissingFile}
    \cup {FileOf(BareObj(p)) :
            p \in {PlainPipe("B"), StepsPipe("B"), BareSelPipe("B"),
                   SelPipe("B", <<"a", "b">>)}}
    \cup {FileOf(DictObj(p, m, po, f, IdKeyed, "meta")) :
            p \in {NoPipeline, SelPipe("P", <<"b">>)},
            m \in {NoPipeline, PlainPipe("M")},
            po \in {NoPipeline, SelPipe("O", <<"a">>)},
            f \in {NoList, ListOf(<<>>)}}
    \cup {FileOf(DictObj(PlainPipe("P"), NoPipeline, NoPipeline, f, lm, "meta")) :
            f \in {ListOf(<<"a", "b">>), ListOf(<<"b", "a">>)}, lm \in Mappings}

\* Artifacts of the loader development: a missing file, loadable ones, one with
\* no pipeline under any key, one whose label mapping cannot be post-processed.
LoaderArtifacts ==
    {MissingFile,
     FileOf(BareObj(SelPipe("B", <<"a", "b">>))),
     FileOf(DictObj(PlainPipe("P"), NoPipeline, NoPipeline, ListOf(<<"a">>), NameKeyed, "meta")),
     FileOf(DictObj(NoPipeline, NoPipeline, NoPipeline, ListOf(<<"a">>), IdKeyed, "meta")),
     FileOf(DictObj(PlainPipe("P"), NoPipeline, NoPipeline, NoList, BadMapping, "None"))}

-----------------------------------------------------------------------------
(* model_loader.py: the pure parts.                                        *)

\* An optional dict: None, or a mapping d.
NoDict    == [isNone |-> TRUE, d |-> EmptyDict]
DictOf(d) == [isNone |-> FALSE, d |-> d]

\* The value None in the place of a package, and in the place of loaded_obj.
NonePackage ==
    [isNone |-> TRUE, oid |-> 0, pipeline |-> NoPipeline,
     required_raw_features |-> NoList, label_mapping |-> NoMapping,
     model_metadata |-> "None", has_codec_keys |-> FALSE,
     _label_id_to_name |-> NoDict, _label_name_to_id |-> NoDict]
NoObject == [oid |-> 0, obj |-> BareObj(NoPipeline)]

\* a or b or c, on optional pipelines
Or3(a, b, c) == IF ~a.isNone THEN a ELSE IF ~b.isNone THEN b ELSE c

\* _normalize_package(loaded_obj) -> [ok, package]; ok = FALSE is the ValueError.
\* The package dict created here carries the identity oid of this load.
_normalize_package(lo) ==
    LET o == lo.obj
        pkg == IF o.isdict
               THEN [NonePackage EXCEPT
                        !.isNone = FALSE, !.oid = lo.oid,
                        !.pipeline = Or3(o.pipeline, o.model, o.pipeline_obj),
                        !.required_raw_features = o.required_raw_features,
                        !.label_mapping = o.label_mapping,
                        !.model_metadata = o.model_metadata]
               ELSE [NonePackage EXCEPT
                        !.isNone = FALSE, !.oid = lo.oid, !.pipeline = o.bare]
    IN  IF pkg.pipeline.isNone
        THEN [ok |-> FALSE, package |-> NonePackage]
        ELSE [ok |-> TRUE, package |-> pkg]

\* The loop body with the except branch storing the value as it came.
CodecEntryNoSwap(acc, k, v) ==
    IF ~acc.ok THEN acc
    ELSE IF IntOf(k).ok
    THEN [ok |-> TRUE,
          id_to_name |-> DictSet(acc.id_to_name, IntOf(k).n, v),
          name_to_id |-> DictSet(acc.name_to_id, StrOf(v), IntOf(k).n)]
    ELSE IF IntOf(v).ok
    THEN [ok |-> TRUE,
          id_to_name |-> DictSet(acc.id_to_name, IntOf(v).n, v),
          name_to_id |-> DictSet(acc.name_to_id, StrOf(k), IntOf(v).n)]
    ELSE [acc EXCEPT !.ok = FALSE]

\* One iteration of the loop over label_map.items(), lines 81-90.
CodecEntry(acc, k, v) ==
    IF ~acc.ok THEN acc
    ELSE IF IntOf(k).ok
    THEN [ok |-> TRUE,
          id_to_name |-> DictSet(acc.id_to_name, IntOf(k).n, v),
          name_to_id |-> DictSet(acc.name_to_id, StrOf(v), IntOf(k).n)]
    ELSE IF IntOf(v).ok
    THEN [ok |-> TRUE,
          id_to_name |-> DictSet(acc.id_to_name, IntOf(v).n, PyStr(StrOf(k))),
          name_to_id |-> DictSet(acc.name_to_id, StrOf(k), IntOf(v).n)]
    ELSE [acc EXCEPT !.ok = FALSE]

\* The loop, lines 79-90, over the items in iteration order.
RECURSIVE CodecLoop(_, _)
CodecLoop(acc, items) ==
    IF items = <<>> THEN acc
    ELSE CodecLoop(CodecEntry(acc, Head(items).k, Head(items).v), Tail(items))

BuildCodec(items) ==
    CodecLoop([ok |-> TRUE, id_to_name |-> EmptyDict, name_to_id |-> EmptyDict], items)

\* Lines 74-95 on a normalized package -> [ok, package]; ok = FALSE is the
\* exception int(v) raises in the except branch.
PostProcess(pkg) ==
    IF pkg.label_mapping.isNone
    THEN [ok |-> TRUE,
          package |-> [pkg EXCEPT !.has_codec_keys = TRUE,
                                  !._label_id_to_name = NoDict,
                                  !._label_name_to_id = NoDict]]
    ELSE LET c == BuildCodec(pkg.label_mapping.items)
         IN  IF c.ok
             THEN [ok |-> TRUE,
                   package |-> [pkg EXCEPT !.has_codec_keys = TRUE,
                                           !._label_id_to_name = DictOf(c.id_to_name),
                                           !._label_name_to_id = DictOf(c.name_to_id)]]
             ELSE [ok |-> FALSE, package |-> pkg]

\* `not features`: an empty list counts as unset too.
FeaturesFalsy(features) == features.isNone \/ features.items = <<>>

\* `features is None`, line 117
FeaturesUnset(features) == features.isNone

\* get_required_features after _ensure_loaded, lines 112-130, on the package
\* read from the cache -> [ok, features, introspected].  ok = FALSE is the
\* AttributeError of None.get; introspected: the pipeline's attributes were read.
RequiredFeaturesOf(pkg) ==
    IF pkg.isNone THEN [ok |-> FALSE, features |-> <<>>, introspected |-> FALSE]
    ELSE LET declared == pkg.required_raw_features
             p == pkg.pipeline
         IN  IF FeaturesUnset(declared)
             THEN [ok |-> TRUE,
                   features |-> IF p.hasNamedSteps /\ p.hasSelector /\ p.hasRequiredColumns
                                THEN p.required_columns ELSE <<>>,
                   introspected |-> TRUE]
             ELSE [ok |-> TRUE, features |-> declared.items, introspected |-> FALSE]

\* `id_to_name and pid in id_to_name`, line 151
CodecHas(id_to_name, pid) ==
    /\ ~id_to_name.isNone
    /\ DOMAIN id_to_name.d # {}
    /\ pid \in DOMAIN id_to_name.d

\* `isinstance(prediction, (int,)) or (isinstance(prediction, str) and
\* prediction.isdigit())`, line 148
IntLike(prediction) ==
    IsInstanceInt(prediction) \/ (IsInstanceStr(prediction) /\ IsDigit(prediction.s))

\* decode_label after _ensure_loaded, lines 143-164, on the package read from
\* the cache.  The try block swallows the AttributeError of a None package.
DecodeWith(pkg, prediction) ==
    IF IntLike(prediction) /\ ~pkg.isNone
    THEN LET pid == IntOf(prediction).n
         IN  IF CodecHas(pkg._label_id_to_name, pid)
             THEN pkg._label_id_to_name.d[pid]
             ELSE PyStr(ToString(pid))
    ELSE IF IsInstanceStr(prediction) THEN prediction
    ELSE PyStr(StrOf(prediction))

-----------------------------------------------------------------------------
(* model_loader.py: threads calling get_pipeline, get_required_features    *)
(* and decode_label, each stepping through _ensure_loaded.                 *)

LoaderOps == {"get_pipeline", "get_required_features", "decode_label"}

\* The prediction the loader threads hand to decode_label.
DecodeArg == PyInt(0)

NoRet == [status |-> "none", error |-> "", pkg |-> NonePackage,
          features |-> <<>>, label |-> PyNone]

\* `_model_cache["loaded"]`, lines 64 and 68
CacheLoaded(cache) == cache.loaded

\* A lock that never makes a caller wait.
LockNeverHeld(lock) == TRUE

\* threading.Lock: acquire proceeds only while no thread holds it, line 67
LockFree(lock) == lock = 0

\* The two stores that publish the load, in program order:
\* `_model_cache["package"] = package` (line 97), then
\* `_model_cache["loaded"] = True` (line 98).
CacheStoreFlagFirst(cache, pkg, line) ==
    IF line = 97 THEN [cache EXCEPT !.loaded = TRUE] ELSE [cache EXCEPT !.package = pkg]

CacheStore(cache, pkg, line) ==
    IF line = 97 THEN [cache EXCEPT !.package = pkg] ELSE [cache EXCEPT !.loaded = TRUE]

\* What a loader function returns from the package it read out of the cache
\* (lines 107, 112-130, 143-164).
ResultOf(o, pkg) ==
    CASE o = "get_pipeline" -> [NoRet EXCEPT !.status = "ok", !.pkg = pkg]
      [] o = "get_required_features" ->
            IF RequiredFeaturesOf(pkg).ok
            THEN [NoRet EXCEPT !.status = "ok", !.pkg = pkg,
                               !.features = RequiredFeaturesOf(pkg).features]
            ELSE [NoRet EXCEPT !.status = "error", !.error = "AttributeError", !.pkg = pkg]
      [] OTHER -> [NoRet EXCEPT !.status = "ok", !.pkg = pkg,
                                !.label = DecodeWith(pkg, DecodeArg)]

LoaderInit ==
    /\ _model_cache = [loaded |-> FALSE, package |-> NonePackage]
    /\ _cache_lock = 0
    /\ nDeserialize = 0
    /\ nLoadFile = 0
    /\ pc = [t \in Threads |-> "idle"]
    /\ op = [t \in Threads |-> ""]
    /\ calls = [t \in Threads |-> 0]
    /\ loaded_obj = [t \in Threads |-> NoObject]
    /\ package = [t \in Threads |-> NonePackage]
    /\ raised = [t \in Threads |-> ""]
    /\ ret = [t \in Threads |-> NoRet]

\* The loader's steps leave the file and the other developments' state alone.
LoaderFrame == UNCHANGED <<artifact, appVars, codecVars>>

\* A thread enters get_pipeline / get_required_features / decode_label.
Call(t) ==
    /\ LoaderFrame
    /\ pc[t] = "idle"
    /\ calls[t] < MaxCalls
    /\ \E o \in LoaderOps : op' = [op EXCEPT ![t] = o]
    /\ calls' = [calls EXCEPT ![t] = @ + 1]
    /\ ret' = [ret EXCEPT ![t] = NoRet]
    /\ pc' = [pc EXCEPT ![t] = "l64"]
    /\ UNCHANGED <<_model_cache, _cache_lock, nDeserialize, nLoadFile, loaded_obj, package, raised>>

\* Line 64: the lock-free check.
FastCheck(t) ==
    /\ LoaderFrame
    /\ pc[t] = "l64"
    /\ pc' = [pc EXCEPT ![t] = IF CacheLoaded(_model_cache) THEN "read" ELSE "l67"]
    /\ UNCHANGED <<_model_cache, _cache_lock, nDeserialize, nLoadFile, op, calls, loaded_obj,
                   package, raised, ret>>

\* Line 67: `with _cache_lock:` acquires.
Acquire(t) ==
    /\ LoaderFrame
    /\ pc[t] = "l67"
    /\ LockFree(_cache_lock)
    /\ _cache_lock' = t
    /\ pc' = [pc EXCEPT ![t] = "l68"]
    /\ UNCHANGED <<_model_cache, nDeserialize, nLoadFile, op, calls, loaded_obj, package, raised, ret>>

\* Line 68: the check under the lock.
LockedCheck(t) ==
    /\ LoaderFrame
    /\ pc[t] = "l68"
    /\ pc' = [pc EXCEPT ![t] = IF CacheLoaded(_model_cache) THEN "exit" ELSE "l71"]
    /\ UNCHANGED <<_model_cache, _cache_lock, nDeserialize, nLoadFile, op, calls, loaded_obj,
                   package, raised, ret>>

\* Line 71: _load_model_file; joblib.load runs only when the file exists.
LoadFile(t) ==
    /\ LoaderFrame
    /\ pc[t] = "l71"
    /\ nLoadFile' = nLoadFile + 1
    /\ IF artifact.exists
       THEN /\ nDeserialize' = nDeserialize + 1
            /\ loaded_obj' = [loaded_obj EXCEPT
                                ![t] = [oid |-> nDeserialize + 1, obj |-> artifact.obj]]
            /\ pc' = [pc EXCEPT ![t] = "l72"]
            /\ UNCHANGED raised
       ELSE /\ raised' = [raised EXCEPT ![t] = "FileNotFoundError"]
            /\ pc' = [pc EXCEPT ![t] = "exit"]
            /\ UNCHANGED <<nDeserialize, loaded_obj>>
    /\ UNCHANGED <<_model_cache, _cache_lock, op, calls, package, ret>>

\* Line 72: _normalize_package.
Normalize(t) ==
    /\ LoaderFrame
    /\ pc[t] = "l72"
    /\ LET r == _normalize_package(loaded_obj[t])
       IN  IF r.ok
           THEN /\ package' = [package EXCEPT ![t] = r.package]
                /\ pc' = [pc EXCEPT ![t] = "l75"]
                /\ UNCHANGED raised
           ELSE /\ raised' = [raised EXCEPT ![t] = "ValueError"]
                /\ pc' = [pc EXCEPT ![t] = "exit"]
                /\ UNCHANGED package
    /\ UNCHANGED <<_model_cache, _cache_lock, nDeserialize, nLoadFile, op, calls, loaded_obj, ret>>

\* Lines 74-95: the label mapping is post-processed on the local package.
BuildLabels(t) ==
    /\ LoaderFrame
    /\ pc[t] = "l75"
    /\ LET r == PostProcess(package[t])
       IN  IF r.ok
           THEN /\ package' = [package EXCEPT ![t] = r.package]
                /\ pc' = [pc EXCEPT ![t] = "l97"]
                /\ UNCHANGED raised
           ELSE /\ raised' = [raised EXCEPT ![t] = "ValueError"]
                /\ pc' = [pc EXCEPT ![t] = "exit"]
                /\ UNCHANGED package
    /\ UNCHANGED <<_model_cache, _cache_lock, nDeserialize, nLoadFile, op, calls, loaded_obj, ret>>

\* Line 97.
StorePackage(t) ==
    /\ LoaderFrame
    /\ pc[t] = "l97"
    /\ _model_cache' = CacheStore(_model_cache, package[t], 97)
    /\ pc' = [pc EXCEPT ![t] = "l98"]
    /\ UNCHANGED <<_cache_lock, nDeserialize, nLoadFile, op, calls, loaded_obj, package, raised, ret>>

\* Line 98.
StoreLoaded(t) ==
    /\ LoaderFrame
    /\ pc[t] = "l98"
    /\ _model_cache' = CacheStore(_model_cache, package[t], 98)
    /\ pc' = [pc EXCEPT ![t] = "exit"]
    /\ UNCHANGED <<_cache_lock, nDeserialize, nLoadFile, op, calls, loaded_obj, package, raised, ret>>

\* The with block is left (by return, by falling off its end, or by an
\* exception): the lock is released, the locals die, and an exception
\* propagates to the caller of the loader function.
Release(t) ==
    /\ LoaderFrame
    /\ pc[t] = "exit"
    /\ _cache_lock' = 0
    /\ loaded_obj' = [loaded_obj EXCEPT ![t] = NoObject]
    /\ package' = [package EXCEPT ![t] = NonePackage]
    /\ raised' = [raised EXCEPT ![t] = ""]
    /\ IF raised[t] # ""
       THEN /\ ret' = [ret EXCEPT ![t] = [NoRet EXCEPT !.status = "error",
                                                         !.error = raised[t]]]
            /\ pc' = [pc EXCEPT ![t] = "idle"]
            /\ op' = [op EXCEPT ![t] = ""]
       ELSE /\ pc' = [pc EXCEPT ![t] = "read"]
            /\ UNCHANGED <<ret, op>>
    /\ UNCHANGED <<_model_cache, nDeserialize, nLoadFile, calls>>

\* After _ensure_loaded returned: `_model_cache["package"]` is read and the
\* function's result computed from it (lines 107, 112-130, 143-164).
ReadCache(t) ==
    /\ LoaderFrame
    /\ pc[t] = "read"
    /\ ret' = [ret EXCEPT ![t] = ResultOf(op[t], _model_cache.package)]
    /\ pc' = [pc EXCEPT ![t] = "idle"]
    /\ op' = [op EXCEPT ![t] = ""]
    /\ UNCHANGED <<_model_cache, _cache_lock, nDeserialize, nLoadFile, calls, loaded_obj,
                   package, raised>>

\* No request yet, and no response yet.
NoRequest == [route |-> "none", kind |-> "none", payload |-> EmptyDict]

NoResponse ==
    [route |-> "none", status |-> 0, error |-> "", missing_fields |-> <<>>,
     details |-> EmptyDict, model_loaded |-> FALSE, prediction |-> PyNone,
     confidence |-> 0, classRaw |-> PyNone, df |-> <<>>, calledPipeline |-> FALSE]

\* The application is not part of the loader development.
AppIdle ==
    /\ phase = "import"
    /\ PIPELINE_PACKAGE = NonePackage
    /\ REQUIRED_FEATURES = <<>>
    /\ startup = [ok |-> FALSE, introspected |-> FALSE]
    /\ request = NoRequest
    /\ response = NoResponse

\* No codec built yet, nothing decoded yet.
NoCodec == [byId |-> NonePackage, byName |-> NonePackage,
            decoded |-> [done |-> FALSE, id |-> 0, byId |-> PyNone, byName |-> PyNone]]

CodecIdle ==
    /\ label_map = <<>>
    /\ codec = NoCodec

InitLoader ==
    /\ artifact \in LoaderArtifacts
    /\ LoaderInit
    /\ AppIdle
    /\ CodecIdle

NextLoader ==
    \/ \E t \in Threads : Call(t)
    \/ \E t \in Threads : FastCheck(t)
    \/ \E t \in Threads : Acquire(t)
    \/ \E t \in Threads : LockedCheck(t)
    \/ \E t \in Threads : LoadFile(t)
    \/ \E t \in Threads : Normalize(t)
    \/ \E t \in Threads : BuildLabels(t)
    \/ \E t \in Threads : StorePackage(t)
    \/ \E t \in Threads : StoreLoaded(t)
    \/ \E t \in Threads : Release(t)
    \/ \E t \in Threads : ReadCache(t)

SpecLoader == InitLoader /\ [][NextLoader]_vars

-----------------------------------------------------------------------------
(* Properties of the loader.                                               *)

\* The whole of the load succeeds on this file: it exists, a pipeline is
\* identified, and the label mapping is brought to its two dicts.
ArtifactLoads ==
    /\ artifact.exists
    /\ _normalize_package([oid |-> 1, obj |-> artifact.obj]).ok
    /\ PostProcess(_normalize_package([oid |-> 1, obj |-> artifact.obj]).package).ok

\* A package with its pipeline and both codec keys in place.
FullyBuilt(pkg) ==
    /\ ~pkg.isNone
    /\ ~pkg.pipeline.isNone
    /\ pkg.has_codec_keys

\* C1: for a file that exists and normalizes, under every interleaving of
\* the threads' calls joblib.load runs at most once, exactly once as soon as
\* any call has returned, no call fails, every call that returned read the
\* one package built from that single load, which is the cached one, and a
\* thread inside a call is never left without a step some thread can take.
C1_SingleLoadSamePackage ==
    ArtifactLoads =>
        /\ nDeserialize <= 1
        /\ \A t \in Threads :
              /\ ret[t].status # "error"
              /\ ret[t].status = "ok" =>
                    /\ nDeserialize = 1
                    /\ ret[t].pkg.oid = 1
                    /\ FullyBuilt(ret[t].pkg)
                    /\ ret[t].pkg = _model_cache.package
        /\ (\E t \in Threads : pc[t] # "idle") => ENABLED NextLoader

\* C1 witness: two threads raced for the first load; one has returned the
\* package, the other waited for the lock and now finds the cache loaded.
C1_Witness ==
    /\ ArtifactLoads
    /\ nDeserialize = 1
    /\ \E t, u \in Threads :
          /\ t # u
          /\ calls[t] = 1 /\ calls[u] = 1
          /\ ret[t].status = "ok"
          /\ pc[u] = "l68"
          /\ _model_cache.loaded

\* C2: over every sequence of loader calls on every artifact, joblib.load
\* is performed at most once.
C2_AtMostOneDeserialization == nDeserialize <= 1

\* C10: whenever the loaded flag is true the cached package is fully built,
\* every package a returned call read is fully built, and from a state with
\* the flag true no step writes the flag or the package.
C10_LoadedImpliesBuiltAndFrozen ==
    /\ [](/\ _model_cache.loaded => FullyBuilt(_model_cache.package)
          /\ \A t \in Threads : ret[t].status = "ok" => FullyBuilt(ret[t].pkg))
    /\ [][_model_cache.loaded => _model_cache' = _model_cache]_vars

\* C10 witness: a thread performed the load and still holds the lock (its
\* local package is alive), while another thread, which cannot have held
\* the lock since, has passed the lock-free check and is about to read the cache.
C10_Witness ==
    \E t, u \in Threads :
        /\ t # u
        /\ pc[t] = "read" /\ calls[t] = 1
        /\ pc[u] = "exit" /\ _cache_lock = u /\ calls[u] = 1
        /\ FullyBuilt(package[u])
        /\ _model_cache.loaded
        /\ _model_cache.package = package[u]

-----------------------------------------------------------------------------
(* app.py: the module body run at import, then /health and /predict.       *)

\* _ensure_loaded run by a single thread from start to end, lines 64-98
\* -> [ok, cache, n, f]: the cache, the joblib.load count and the
\* _load_model_file count after it; ok = FALSE when it raised.
EnsureLoaded(cache, art, n, f) ==
    IF CacheLoaded(cache) THEN [ok |-> TRUE, cache |-> cache, n |-> n, f |-> f]
    ELSE IF ~art.exists THEN [ok |-> FALSE, cache |-> cache, n |-> n, f |-> f + 1]
    ELSE LET np == _normalize_package([oid |-> n + 1, obj |-> art.obj])
             pp == PostProcess(np.package)
         IN  IF np.ok /\ pp.ok
             THEN [ok |-> TRUE,
                   cache |-> CacheStore(CacheStore(cache, pp.package, 97), pp.package, 98),
                   n |-> n + 1, f |-> f + 1]
             ELSE [ok |-> FALSE, cache |-> cache, n |-> n + 1, f |-> f + 1]

\* JSON values a request body can carry for a key.
JsonValues == {PyInt(1), PyFloat(25), PyStr("3.5"), PyStr("abc"), PyBool(TRUE),
               PyNone, PyList, PyDict}

\* JSON objects over the keys "a", "b" and an unrelated "x", each present or
\* not: "a" carries any JSON value, "b" a number, a numeric or a non-numeric string.
KeyValues(k) ==
    IF k = "a" THEN JsonValues
    ELSE IF k = "b" THEN {PyInt(1), PyStr("3.5"), PyStr("abc")}
    ELSE {PyStr("abc")}
Payloads ==
    UNION {{p \in [K -> JsonValues] : \A k \in K : p[k] \in KeyValues(k)} :
             K \in SUBSET {"a", "b", "x"}}

Requests ==
    {[route |-> "health", kind |-> "none", payload |-> EmptyDict]}
    \cup {[route |-> "predict", kind |-> k, payload |-> EmptyDict] :
            k \in {"notjson", "badjson", "nonobject"}}
    \cup {[route |-> "predict", kind |-> "object", payload |-> b] : b \in Payloads}

\* What the opaque pipeline does with the one-row frame: DataFrame
\* construction fails, predict / predict_proba raises, or preds[0] is
\* classRaw (a native int, an element of a numpy integer array, or a string)
\* and probs[0].max() is prob (in units of 0.00001).
ClassRaws == {PyInt(i) : i \in ClassIds} \cup {NpInt(i) : i \in ClassIds}
             \cup {PyStr("DDoS")}
Outcomes ==
    {[kind |-> k, classRaw |-> PyNone, prob |-> 0] : k \in {"frame_error", "predict_error"}}
    \cup {[kind |-> "ok", classRaw |-> c, prob |-> 90004] : c \in ClassRaws}

\* round(prob, 4), in units of 0.0001
Round4(prob) == (prob + 5) \div 10

ErrorResponse(status, error) ==
    [NoResponse EXCEPT !.route = "predict", !.status = status, !.error = error]

\* A predict handler that goes on without a model.
ModelNeverMissing(pp) == FALSE

\* `PIPELINE_PACKAGE is None`, lines 30 and 35
ModelNotLoaded(pp) == pp.isNone

\* Line 51, reporting only the first absent field.
RECURSIVE FirstMissing(_, _)
FirstMissing(fields, payload) ==
    IF fields = <<>> THEN <<>>
    ELSE IF Head(fields) \notin DOMAIN payload THEN <<Head(fields)>>
    ELSE FirstMissing(Tail(fields), payload)

\* `[f for f in REQUIRED_FEATURES if f not in payload]`, line 51
RECURSIVE Missing(_, _)
Missing(fields, payload) ==
    IF fields = <<>> THEN <<>>
    ELSE (IF Head(fields) \notin DOMAIN payload THEN <<Head(fields)>> ELSE <<>>)
         \o Missing(Tail(fields), payload)

\* The loop body of lines 58-69, giving up after the first bad field.
CheckFieldFailFast(acc, k, v) ==
    IF acc.type_errors # EmptyDict THEN acc
    ELSE IF IsInstanceIntFloat(v)
    THEN [acc EXCEPT !.casted = DictSet(acc.casted, k, v)]
    ELSE IF FloatOf(v).ok
    THEN [acc EXCEPT !.casted = DictSet(acc.casted, k, PyFloat(FloatOf(v).x))]
    ELSE [acc EXCEPT !.type_errors = DictSet(acc.type_errors, k, v)]

\* The loop body of lines 58-69 for field k with v = payload.get(k); the
\* entry of type_errors is recorded by the value whose repr the message ends with.
CheckField(acc, k, v) ==
    IF IsInstanceIntFloat(v)
    THEN [acc EXCEPT !.casted = DictSet(acc.casted, k, v)]
    ELSE IF FloatOf(v).ok
    THEN [acc EXCEPT !.casted = DictSet(acc.casted, k, PyFloat(FloatOf(v).x))]
    ELSE [acc EXCEPT !.type_errors = DictSet(acc.type_errors, k, v)]

\* payload.get(k)
PayloadGet(payload, k) == IF k \in DOMAIN payload THEN payload[k] ELSE PyNone

\* Lines 56-69 -> [casted, type_errors]
RECURSIVE TypeCheckLoop(_, _, _)
TypeCheckLoop(acc, fields, payload) ==
    IF fields = <<>> THEN acc
    ELSE TypeCheckLoop(CheckField(acc, Head(fields), PayloadGet(payload, Head(fields))),
                       Tail(fields), payload)

TypeCheck(fields, payload) ==
    TypeCheckLoop([casted |-> EmptyDict, type_errors |-> EmptyDict], fields, payload)

\* pd.DataFrame([casted], columns=REQUIRED_FEATURES): the one row, in column order
Frame(casted, fields) == [i \in 1..Len(fields) |-> casted[fields[i]]]

\* predict up to line 72: the response when the request is answered before
\* the frame is built, else status 0 with the casted values.
Validate(pp, fields, req) ==
    IF ModelNotLoaded(pp) THEN ErrorResponse(500, "Model not loaded")
    ELSE IF req.kind = "notjson" THEN ErrorResponse(400, "Expected JSON body")
    ELSE IF req.kind = "badjson" THEN ErrorResponse(400, "Invalid JSON body")
    ELSE IF req.kind # "object"
    THEN ErrorResponse(400, "Expected JSON object (dictionary)")
    ELSE IF Missing(fields, req.payload) # <<>>
    THEN [ErrorResponse(400, "Missing required fields") EXCEPT
            !.missing_fields = Missing(fields, req.payload)]
    ELSE IF TypeCheck(fields, req.payload).type_errors # EmptyDict
    THEN [ErrorResponse(400, "Wrong types for fields") EXCEPT
            !.details = TypeCheck(fields, req.payload).type_errors]
    ELSE [NoResponse EXCEPT !.route = "predict"]

\* predict from line 74 on, for a request that passed validation; cache is
\* the cache after decode_label's _ensure_loaded.
Infer(pp, fields, req, out, cache) ==
    LET df == Frame(TypeCheck(fields, req.payload).casted, fields)
    IN  IF out.kind = "frame_error"
        THEN ErrorResponse(500, "Internal server error while preparing input")
        ELSE IF pp.isNone
        THEN [ErrorResponse(500, "Internal server error during prediction") EXCEPT
                !.df = df]
        ELSE IF out.kind = "predict_error"
        THEN [ErrorResponse(500, "Internal server error during prediction") EXCEPT
                !.df = df, !.calledPipeline = TRUE]
        ELSE [NoResponse EXCEPT
                !.route = "predict", !.status = 200, !.df = df,
                !.calledPipeline = TRUE, !.classRaw = out.classRaw,
                !.prediction = DecodeWith(cache.package, out.classRaw),
                !.confidence = Round4(out.prob)]

\* The application's steps leave the loader threads and the file alone.
AppFrame == UNCHANGED <<artifact, _cache_lock, pc, op, calls, loaded_obj, package,
                        raised, ret, codecVars>>

\* Lines 16-25: the import-time try block.
Startup ==
    /\ phase = "import"
    /\ AppFrame
    /\ LET r == EnsureLoaded(_model_cache, artifact, nDeserialize, nLoadFile)
           rf == RequiredFeaturesOf(r.cache.package)
       IN  /\ _model_cache' = r.cache
           /\ nDeserialize' = r.n
           /\ nLoadFile' = r.f
           /\ IF r.ok /\ rf.ok
              THEN /\ PIPELINE_PACKAGE' = r.cache.package
                   /\ REQUIRED_FEATURES' = rf.features
                   /\ startup' = [ok |-> TRUE, introspected |-> rf.introspected]
              ELSE /\ PIPELINE_PACKAGE' = NonePackage
                   /\ REQUIRED_FEATURES' = <<>>
                   /\ startup' = [ok |-> FALSE, introspected |-> FALSE]
    /\ phase' = "serving"
    /\ UNCHANGED <<request, response>>

\* A request arrives at the running server.
Receive ==
    /\ phase = "serving"
    /\ response # NoResponse \/ request = NoRequest
    /\ AppFrame
    /\ \E req \in Requests : request' = req
    /\ response' = NoResponse
    /\ UNCHANGED <<phase, PIPELINE_PACKAGE, REQUIRED_FEATURES, startup,
                   _model_cache, nDeserialize, nLoadFile>>

\* Lines 28-30.
Health ==
    /\ phase = "serving"
    /\ request.route = "health" /\ response = NoResponse
    /\ AppFrame
    /\ response' = [NoResponse EXCEPT !.route = "health", !.status = 200,
                                      !.model_loaded = ~ModelNotLoaded(PIPELINE_PACKAGE)]
    /\ UNCHANGED <<phase, PIPELINE_PACKAGE, REQUIRED_FEATURES, startup, request,
                   _model_cache, nDeserialize, nLoadFile>>

\* Lines 33-108.
Predict ==
    /\ phase = "serving"
    /\ request.route = "predict" /\ response = NoResponse
    /\ AppFrame
    /\ LET early == Validate(PIPELINE_PACKAGE, REQUIRED_FEATURES, request)
       IN  IF early.status # 0
           THEN /\ response' = early
                /\ UNCHANGED <<_model_cache, nDeserialize, nLoadFile>>
           ELSE \E out \in Outcomes :
                  LET decodes == out.kind = "ok" /\ ~PIPELINE_PACKAGE.isNone
                      r == IF decodes
                           THEN EnsureLoaded(_model_cache, artifact, nDeserialize, nLoadFile)
                           ELSE [ok |-> TRUE, cache |-> _model_cache,
                                 n |-> nDeserialize, f |-> nLoadFile]
                  IN  /\ response' =
                            IF r.ok
                            THEN Infer(PIPELINE_PACKAGE, REQUIRED_FEATURES, request, out, r.cache)
                            ELSE [ErrorResponse(500, "Internal server error during prediction")
                                    EXCEPT !.calledPipeline = TRUE]
                      /\ _model_cache' = r.cache
                      /\ nDeserialize' = r.n
                      /\ nLoadFile' = r.f
    /\ UNCHANGED <<phase, PIPELINE_PACKAGE, REQUIRED_FEATURES, startup, request>>

InitApp ==
    /\ artifact \in AppArtifacts
    /\ LoaderInit
    /\ AppIdle
    /\ CodecIdle

NextApp == Startup \/ Receive \/ Health \/ Predict

SpecApp == InitApp /\ [][NextApp]_vars

-----------------------------------------------------------------------------
(* Properties of the application.                                          *)

SeqSet(seq) == {seq[i] : i \in 1..Len(seq)}

\* The schema's fields and the request's keys.
SchemaFields == SeqSet(REQUIRED_FEATURES)
RequestKeys  == DOMAIN request.payload

\* /predict has answered a JSON-object request with the model loaded.
AnsweredObject ==
    /\ phase = "serving"
    /\ response.route = "predict"
    /\ request.kind = "object"
    /\ ~PIPELINE_PACKAGE.isNone

\* C3: a JSON-object request lacking at least one schema field is answered
\* 400 'Missing required fields', missing_fields holding exactly the schema
\* fields that are not keys of the request (each once, in schema order),
\* whatever other keys and values it carries, with no type-error details and
\* without the pipeline being run.
C3_MissingFieldsExact ==
    (AnsweredObject /\ SchemaFields \ RequestKeys # {}) =>
        /\ response.status = 400
        /\ response.error = "Missing required fields"
        /\ SeqSet(response.missing_fields) = SchemaFields \ RequestKeys
        /\ Len(response.missing_fields) = Cardinality(SchemaFields \ RequestKeys)
        /\ \A i, j \in 1..Len(response.missing_fields) :
              i < j => \E m, n \in 1..Len(REQUIRED_FEATURES) :
                          /\ m < n
                          /\ REQUIRED_FEATURES[m] = response.missing_fields[i]
                          /\ REQUIRED_FEATURES[n] = response.missing_fields[j]
        /\ response.details = EmptyDict
        /\ ~response.calledPipeline

\* C3 witness: schema a, b; the request has a non-numeric "a" and an
\* unrelated "x" but no "b", and is answered with missing_fields = [b] only.
C3_Witness ==
    /\ AnsweredObject
    /\ REQUIRED_FEATURES = <<"a", "b">>
    /\ RequestKeys = {"a", "x"}
    /\ request.payload["a"] = PyStr("abc")
    /\ response.status = 400
    /\ response.missing_fields = <<"b">>

\* The value fails numeric coercion: neither an int / float instance nor
\* something float() converts.
FailsCoercion(v) == ~IsInstanceIntFloat(v) /\ ~FloatOf(v).ok

BadFields == {k \in SchemaFields : FailsCoercion(request.payload[k])}

\* C4: a JSON-object request supplying every schema field is answered 400
\* 'Wrong types for fields' exactly when some schema field's value fails
\* coercion, and then details has an entry for every such field and for no
\* other key.
C4_AllTypeErrorsReported ==
    (AnsweredObject /\ SchemaFields \subseteq RequestKeys) =>
        /\ (response.status = 400 /\ response.error = "Wrong types for fields")
              <=> BadFields # {}
        /\ DOMAIN response.details = BadFields
        /\ \A k \in BadFields : response.details[k] = request.payload[k]

\* C4 witness: both schema fields carry values that fail coercion, and both
\* are reported.
C4_Witness ==
    /\ AnsweredObject
    /\ REQUIRED_FEATURES = <<"a", "b">>
    /\ {"a", "b"} \subseteq RequestKeys
    /\ request.payload["a"] = PyList
    /\ request.payload["b"] = PyStr("abc")
    /\ response.status = 400
    /\ DOMAIN response.details = {"a", "b"}

\* Texts that denote a number.
NumericStrings == DOMAIN FloatTenths \cup DigitStrings

\* C5: per field, JSON numbers are accepted unchanged, numeric strings are
\* accepted as the number they denote, and booleans, objects, arrays, null
\* and non-numeric strings are reported as type errors for that field.
C5_CoercionClassification ==
    (AnsweredObject /\ SchemaFields \subseteq RequestKeys) =>
        \A i \in 1..Len(REQUIRED_FEATURES) :
            LET k == REQUIRED_FEATURES[i]
                v == request.payload[k]
            IN  /\ (\/ v.t \in {"bool", "dict", "list", "NoneType"}
                    \/ (v.t = "str" /\ v.s \notin NumericStrings))
                      => /\ response.status = 400
                         /\ response.error = "Wrong types for fields"
                         /\ k \in DOMAIN response.details
                /\ (response.status = 200 /\ v.t \in {"int", "float"})
                      => response.df[i] = v
                /\ (response.status = 200 /\ v.t = "str")
                      => response.df[i] = PyFloat(FloatOf(v).x)

\* C6: on every 200 response, an integer class id returned by the pipeline
\* (native or an element of its numpy result array) with an entry in
\* idToName is answered by that entry's name, and one with no entry, or with
\* no codec built, by the stringified id.
C6_DecodedPrediction ==
    (phase = "serving" /\ response.route = "predict" /\ response.status = 200) =>
        LET c == response.classRaw
            id_to_name == _model_cache.package._label_id_to_name
        IN  c.t \in {"int", "numpy.int64"} =>
                IF ~id_to_name.isNone /\ c.n \in DOMAIN id_to_name.d
                THEN response.prediction = id_to_name.d[c.n]
                ELSE response.prediction = PyStr(ToString(c.n))

\* The feature list the artifact declares, and the pipeline it carries.
Declared(o) == IF o.isdict THEN o.required_raw_features ELSE NoList
Carried(o) ==
    IF ~o.isdict THEN o.bare
    ELSE IF ~o.pipeline.isNone THEN o.pipeline
    ELSE IF ~o.model.isNone THEN o.model
    ELSE o.pipeline_obj

\* C8: after a successful load the schema is the artifact's declared list
\* whenever that list is not null, an empty list included, and then the
\* pipeline is not introspected; only for a null list is the pipeline's
\* selector step read, and the schema is its required_columns, or empty when
\* there is none.  The package keeps the declared list as it was, null or empty.
C8_FeaturePrecedence ==
    (phase = "serving" /\ startup.ok) =>
        LET declared == Declared(artifact.obj)
            p == Carried(artifact.obj)
        IN  /\ PIPELINE_PACKAGE.required_raw_features = declared
            /\ IF ~declared.isNone
               THEN REQUIRED_FEATURES = declared.items /\ ~startup.introspected
               ELSE /\ startup.introspected
                    /\ REQUIRED_FEATURES =
                          IF p.hasNamedSteps /\ p.hasSelector /\ p.hasRequiredColumns
                          THEN p.required_columns ELSE <<>>

\* C8 witness: the artifact declares an empty list and carries a pipeline
\* whose selector names columns; the schema is empty.
C8_Witness ==
    /\ phase = "serving" /\ startup.ok
    /\ Declared(artifact.obj) = ListOf(<<>>)
    /\ Carried(artifact.obj).hasRequiredColumns
    /\ Carried(artifact.obj).required_columns # <<>>
    /\ REQUIRED_FEATURES = <<>>

\* The file is missing, or no pipeline can be identified in what it holds.
StartupLoadFails == ~artifact.exists \/ Carried(artifact.obj).isNone

\* C9: the import always completes; when the file is missing or holds no
\* pipeline the startup load has failed, and after a failed startup load
\* every /health answer is 200 with model_loaded false and every /predict
\* answer is exactly 500 'Model not loaded' (no validation result, pipeline
\* not run), the startup's _load_model_file call stays the only one and the
\* cache stays unloaded; after a successful one every /health answer has
\* model_loaded true.
C9_StartupFailureNonFatal ==
    /\ phase = "import" => ENABLED Startup
    /\ phase = "serving" =>
        /\ StartupLoadFails => ~startup.ok
        /\ ~startup.ok =>
              /\ response.route = "health" =>
                    response.status = 200 /\ ~response.model_loaded
              /\ response.route = "predict" =>
                    response = ErrorResponse(500, "Model not loaded")
              /\ nLoadFile = 1
              /\ ~_model_cache.loaded
        /\ startup.ok =>
              (response.route = "health" =>
                    response.status = 200 /\ response.model_loaded)

\* C9 witness: the file is missing, the server runs, and a well-formed
\* request with both fields numeric has been answered 500.
C9_Witness ==
    /\ phase = "serving"
    /\ ~artifact.exists
    /\ request.kind = "object"
    /\ RequestKeys = {"a", "b"}
    /\ request.payload["a"] = PyInt(1)
    /\ response.route = "predict"
    /\ response.status = 500

-----------------------------------------------------------------------------
(* The label codec built from the two orientations of one mapping.         *)

\* Class names: strings int() does not convert.
ClassNames == {"BENIGN", "DDoS", "Bot"}

\* One-to-one mappings between class ids and class names, as sequences of
\* (id, name) entries without a repeated id or name.
OneToOne ==
    UNION {{m \in [1..n -> [id : ClassIds, name : ClassNames]] :
              \A i, j \in 1..n : i # j => m[i].id # m[j].id /\ m[i].name # m[j].name} :
           n \in 0..MaxPairs}

RECURSIVE IdKeyedForm(_)
IdKeyedForm(m) ==
    IF m = <<>> THEN <<>>
    ELSE <<Pair(PyInt(Head(m).id), PyStr(Head(m).name))>> \o IdKeyedForm(Tail(m))

RECURSIVE NameKeyedForm(_)
NameKeyedForm(m) ==
    IF m = <<>> THEN <<>>
    ELSE <<Pair(PyStr(Head(m).name), PyInt(Head(m).id))>> \o NameKeyedForm(Tail(m))

\* Lines 71-95 on an artifact {"pipeline": P, "label_mapping": items}.
LoadedWith(items) ==
    PostProcess(_normalize_package(
        [oid |-> 1,
         obj |-> DictObj(PlainPipe("P"), NoPipeline, NoPipeline, NoList,
                         MappingOf(items), "None")]).package).package

CodecFrame == UNCHANGED <<artifact, loaderVars, appVars, label_map>>

\* The artifact carries the mapping as {id: name}.
BuildIdKeyed ==
    /\ codec.byId.isNone
    /\ codec' = [codec EXCEPT !.byId = LoadedWith(IdKeyedForm(label_map))]
    /\ CodecFrame

\* The artifact carries the mapping as {name: id}.
BuildNameKeyed ==
    /\ codec.byName.isNone
    /\ codec' = [codec EXCEPT !.byName = LoadedWith(NameKeyedForm(label_map))]
    /\ CodecFrame

\* decode_label on a class id, against each of the two packages.
DecodeBoth ==
    /\ ~codec.byId.isNone /\ ~codec.byName.isNone
    /\ ~codec.decoded.done
    /\ \E id \in ClassIds :
          codec' = [codec EXCEPT !.decoded =
                        [done |-> TRUE, id |-> id,
                         byId |-> DecodeWith(codec.byId, PyInt(id)),
                         byName |-> DecodeWith(codec.byName, PyInt(id))]]
    /\ CodecFrame

InitCodec ==
    /\ artifact = MissingFile
    /\ LoaderInit
    /\ AppIdle
    /\ label_map \in OneToOne
    /\ codec = NoCodec

NextCodec == BuildIdKeyed \/ BuildNameKeyed \/ DecodeBoth

SpecCodec == InitCodec /\ [][NextCodec]_vars

\* idToName and nameToId hold exactly the mapping's entries.
Holds(pkg, m) ==
    /\ ~pkg._label_id_to_name.isNone /\ ~pkg._label_name_to_id.isNone
    /\ DOMAIN pkg._label_id_to_name.d = {m[i].id : i \in 1..Len(m)}
    /\ DOMAIN pkg._label_name_to_id.d = {m[i].name : i \in 1..Len(m)}
    /\ \A i \in 1..Len(m) :
          /\ pkg._label_id_to_name.d[m[i].id] = PyStr(m[i].name)
          /\ pkg._label_name_to_id.d[m[i].name] = m[i].id

\* Every id of idToName has its name in nameToId, mapping back to it.
RoundTrips(pkg) ==
    \A id \in DOMAIN pkg._label_id_to_name.d :
        /\ StrOf(pkg._label_id_to_name.d[id]) \in DOMAIN pkg._label_name_to_id.d
        /\ pkg._label_name_to_id.d[StrOf(pkg._label_id_to_name.d[id])] = id

\* C7: for a one-to-one mapping, the codec built from the id-keyed form and
\* the one built from the name-keyed form each hold exactly the mapping's
\* entries, so they have the same idToName and nameToId; in each every id
\* has its name mapping back to it; and decoding an id gives the same name
\* under both.
C7_OrientationIndependent ==
    /\ ~codec.byId.isNone => Holds(codec.byId, label_map) /\ RoundTrips(codec.byId)
    /\ ~codec.byName.isNone => Holds(codec.byName, label_map) /\ RoundTrips(codec.byName)
    /\ (~codec.byId.isNone /\ ~codec.byName.isNone) =>
          /\ codec.byId._label_id_to_name = codec.byName._label_id_to_name
          /\ codec.byId._label_name_to_id = codec.byName._label_name_to_id
    /\ codec.decoded.done =>
          /\ codec.decoded.byId = codec.decoded.byName
          /\ \A i \in 1..Len(label_map) :
                label_map[i].id = codec.decoded.id
                   => codec.decoded.byName = PyStr(label_map[i].name)

\* C7 witness: a two-entry mapping, both codecs built, and an id of the
\* mapping decoded to its name through the codec built from the name-keyed form.
C7_Witness ==
    /\ Len(label_map) >= 2
    /\ codec.decoded.done
    /\ \E i \in 1..Len(label_map) :
          /\ label_map[i].id = codec.decoded.id
          /\ codec.decoded.byName = PyStr(label_map[i].name)

====
